---- MODULE Spec2Model ----
(***************************************************************************)
(* Model of the ord_subset / almost_ord crate: the OrdSubset contract, the *)
(* OrdVar / OrderedVal wrapper, the iterator reductions and the slice      *)
(* sorts and binary searches.                                              *)
(*                                                                         *)
(* The element type T is a contract-conforming type: a value <<x, t>> that *)
(* is ordered by its float component x alone (t is a payload the ordering  *)
(* does not look at, so two distinct elements can compare Equal).  The key *)
(* type B of the keyed operations is the float itself.  SpecLax            *)
(* instantiates the library with a type that breaks the contract, and      *)
(* SpecOps is a caller that applies the operators of OrdVar<f64>.          *)
(***************************************************************************)
EXTENDS Integers, Sequences, FiniteSets, TLC

\* ---------------------------------------------------------------- bounds
MaxLen == 3
MaxNum == 2
MaxTag == 1

\* the float that is not equal to itself
NaN == -1

Num == 0..MaxNum
Float == Num \cup {NaN}
\* keys are one-field values, elements carry a payload next to the float
Key == {<<x>> : x \in Float}
Elem == Float \X (0..MaxTag)

RECURSIVE SeqsUpTo(_)
SeqsUpTo(n) ==
    IF n = 0 THEN {<<>>}
    ELSE SeqsUpTo(n - 1) \cup [1..n -> Elem]

Slices == SeqsUpTo(MaxLen)

\* ------------------------------------------------- the OrdSubset contract
\* the type T the library is instantiated with: "f64", or "Lax", a wrapper
\* of f64 whose impl of OrdSubset reports every value inside the order and
\* so breaks the contract (a NaN compares with nothing)
VARIABLE ty

\* impl OrdSubset for f64: only NaNs != itself; a composite value is outside
\* the order iff its float is
is_outside_order(v) == IF ty = "Lax" THEN FALSE ELSE v[1] = NaN

\* PartialOrd: Some(_) for two values inside the order, None when one of them
\* is outside
partial_cmp(a, b) ==
    IF a[1] = NaN \/ b[1] = NaN THEN "None"
    ELSE IF a[1] < b[1] THEN "Less"
    ELSE IF a[1] > b[1] THEN "Greater"
    ELSE "Equal"

\* Option::unwrap_or(Equal) in the place of Option::expect
expect_or_equal(o) == IF o = "None" THEN "Equal" ELSE o

\* Option::expect on the result of a partial comparison
expect(o) == IF o = "None" THEN "Panic" ELSE o

\* ------------------------------------------------------ comparator wrapper
\* the wrapper with the two mixed cases exchanged
compare_unordered_less_everything(a, b, compare) ==
    CASE is_outside_order(a) /\ is_outside_order(b) -> "Equal"
      [] is_outside_order(a) /\ ~is_outside_order(b) -> "Less"
      [] ~is_outside_order(a) /\ is_outside_order(b) -> "Greater"
      [] OTHER -> compare[<<a, b>>]

\* the wrapper that ranks the first of two values outside the order lower
compare_unordered_pair_less(a, b, compare) ==
    CASE is_outside_order(a) /\ is_outside_order(b) -> "Less"
      [] is_outside_order(a) /\ ~is_outside_order(b) -> "Greater"
      [] ~is_outside_order(a) /\ is_outside_order(b) -> "Less"
      [] OTHER -> compare[<<a, b>>]

\* the wrapper that hands two values outside the order to the closure
compare_unordered_pair_delegated(a, b, compare) ==
    CASE is_outside_order(a) /\ ~is_outside_order(b) -> "Greater"
      [] ~is_outside_order(a) /\ is_outside_order(b) -> "Less"
      [] OTHER -> compare[<<a, b>>]

\* the wrapper that asks only the first value whether it is outside the
\* order
compare_unordered_first_only(a, b, compare) ==
    CASE is_outside_order(a) /\ is_outside_order(b) -> "Equal"
      [] is_outside_order(a) -> "Greater"
      [] OTHER -> compare[<<a, b>>]

\* the wrapper that ranks the first of two values outside the order higher
compare_unordered_pair_greater(a, b, compare) ==
    CASE is_outside_order(a) /\ is_outside_order(b) -> "Greater"
      [] is_outside_order(a) /\ ~is_outside_order(b) -> "Greater"
      [] ~is_outside_order(a) /\ is_outside_order(b) -> "Less"
      [] OTHER -> compare[<<a, b>>]

\* the wrapper that hands every pair to the closure
compare_unordered_unwrapped(a, b, compare) == compare[<<a, b>>]

\* compare is the caller's closure, a function on pairs of values
compare_unordered_greater_everything(a, b, compare) ==
    CASE is_outside_order(a) /\ is_outside_order(b) -> "Equal"
      [] is_outside_order(a) /\ ~is_outside_order(b) -> "Greater"
      [] ~is_outside_order(a) /\ is_outside_order(b) -> "Less"
      [] OTHER -> compare[<<a, b>>]

\* --------------------------------------------------- the sorts of the slice
\* position after which x goes in the sorted prefix v[1..i]; -1 when the
\* comparator panics
RECURSIVE insert_tail(_, _, _, _)
insert_tail(v, x, i, compare) ==
    IF i = 0 THEN 0
    ELSE LET c == compare[<<x, v[i]>>] IN
         IF c = "Panic" THEN -1
         ELSE IF c = "Less" THEN insert_tail(v, x, i - 1, compare)
         ELSE i

\* the insertion sort that shifts the elements and does not write the
\* element it holds back
RECURSIVE sort_by_unfilled(_, _, _)
sort_by_unfilled(v, n, compare) ==
    IF n <= 1 THEN [panic |-> FALSE, v |-> v]
    ELSE LET r == sort_by_unfilled(v, n - 1, compare) IN
         IF r.panic THEN r
         ELSE LET w == r.v
                  j == insert_tail(w, w[n], n - 1, compare)
              IN IF j = -1 THEN [panic |-> TRUE, v |-> w]
                 ELSE [panic |-> FALSE,
                       v |-> [i \in 1..Len(w) |->
                                IF i <= j + 1 THEN w[i]
                                ELSE IF i <= n THEN w[i - 1]
                                ELSE w[i]]]

\* slice::sort_by: a stable comparison sort (insertion sort on short slices)
RECURSIVE sort_by(_, _, _)
sort_by(v, n, compare) ==
    IF n <= 1 THEN [panic |-> FALSE, v |-> v]
    ELSE LET r == sort_by(v, n - 1, compare) IN
         IF r.panic THEN r
         ELSE LET w == r.v
                  j == insert_tail(w, w[n], n - 1, compare)
              IN IF j = -1 THEN [panic |-> TRUE, v |-> w]
                 ELSE [panic |-> FALSE,
                       v |-> [i \in 1..Len(w) |->
                                IF i <= j THEN w[i]
                                ELSE IF i = j + 1 THEN w[n]
                                ELSE IF i <= n THEN w[i - 1]
                                ELSE w[i]]]

Perms(n) == {p \in [1..n -> 1..n] : \A i, j \in 1..n : p[i] = p[j] => i = j}

\* slice::sort_unstable_by: any arrangement of the elements that the
\* comparator accepts as sorted; a panic when a comparison panics
sort_unstable_by(v, compare) ==
    IF \E i, j \in 1..Len(v) : i # j /\ compare[<<v[i], v[j]>>] = "Panic"
    THEN {[panic |-> TRUE, v |-> v]}
    ELSE {[panic |-> FALSE, v |-> [i \in 1..Len(v) |-> v[p[i]]]] :
            p \in {q \in Perms(Len(v)) :
                     \A i, j \in 1..Len(v) :
                        i < j => compare[<<v[q[i]], v[q[j]]>>] # "Greater"}}

\* |a,b| a.partial_cmp(b).expect(..)
cmp_fwd == [p \in Elem \X Elem |-> expect(partial_cmp(p[1], p[2]))]
\* |a,b| b.partial_cmp(a).expect(..)
cmp_rev == [p \in Elem \X Elem |-> expect(partial_cmp(p[2], p[1]))]
\* cmp_ord of the keyed operations
cmp_ord == [p \in Key \X Key |-> expect(partial_cmp(p[1], p[2]))]

ord_subset_sort_by(v, compare) ==
    sort_by(v, Len(v),
            [p \in Elem \X Elem |->
               compare_unordered_greater_everything(p[1], p[2], compare)])

ord_subset_sort(v) == ord_subset_sort_by(v, cmp_fwd)

\* the reverse sort that exchanges the operands of the wrapper instead of
\* the operands of the comparison
ord_subset_sort_rev_all(v) ==
    sort_by(v, Len(v),
            [p \in Elem \X Elem |->
               compare_unordered_greater_everything(p[2], p[1], cmp_fwd)])

ord_subset_sort_rev(v) == ord_subset_sort_by(v, cmp_rev)

\* the keyed sort that asks the elements, not their keys, whether they are
\* outside the order
ord_subset_sort_by_key_of_elements(v, f) ==
    sort_by(v, Len(v),
            [p \in Elem \X Elem |->
               compare_unordered_greater_everything(
                  p[1], p[2], [q \in Elem \X Elem |-> cmp_ord[<<f[q[1]], f[q[2]]>>]])])

ord_subset_sort_by_key(v, f) ==
    sort_by(v, Len(v),
            [p \in Elem \X Elem |->
               compare_unordered_greater_everything(f[p[1]], f[p[2]], cmp_ord)])

ord_subset_sort_unstable_by(v, compare) ==
    sort_unstable_by(v,
            [p \in Elem \X Elem |->
               compare_unordered_greater_everything(p[1], p[2], compare)])

ord_subset_sort_unstable(v) == ord_subset_sort_unstable_by(v, cmp_fwd)

ord_subset_sort_unstable_rev(v) == ord_subset_sort_unstable_by(v, cmp_rev)

ord_subset_sort_unstable_by_key(v, f) ==
    sort_unstable_by(v,
            [p \in Elem \X Elem |->
               compare_unordered_greater_everything(f[p[1]], f[p[2]], cmp_ord)])

\* the closure of partial_sort in lib.rs: the partial comparison when there
\* is one, else a match on which of the two is outside the order
partial_sort_compare(a, b) ==
    IF partial_cmp(a, b) # "None" THEN partial_cmp(a, b)
    ELSE CASE is_outside_order(a) /\ ~is_outside_order(b) -> "Greater"
           [] ~is_outside_order(a) /\ is_outside_order(b) -> "Less"
           [] is_outside_order(a) /\ is_outside_order(b) -> "Greater"
           [] OTHER -> "Panic"

\* AlmostOrdSliceExt::partial_sort of lib.rs
partial_sort(v) ==
    sort_by(v, Len(v),
            [p \in Elem \X Elem |-> partial_sort_compare(p[1], p[2])])

\* ------------------------------------------------------- binary searches
Panicked == [kind |-> "Panic", idx |-> 0, val |-> <<>>]
Unit == [kind |-> "Unit", idx |-> 0, val |-> <<>>]
Ok(i) == [kind |-> "Ok", idx |-> i, val |-> <<>>]
Err(i) == [kind |-> "Err", idx |-> i, val |-> <<>>]
\* an OrdVar / OrderedVal as a result
Wrapped(w) == [kind |-> "Wrapped", idx |-> 0, val |-> <<w>>]
\* an Ordering as a result, or the panic in its place
Ordering(o) ==
    IF o = "Panic" THEN Panicked ELSE [kind |-> o, idx |-> 0, val |-> <<>>]
\* a bool as a result
Bool(b) == [kind |-> IF b THEN "true" ELSE "false", idx |-> 0, val |-> <<>>]
\* several Orderings as a result, or the panic of one of them
Orderings(os) ==
    IF \E i \in 1..Len(os) : os[i] = "Panic" THEN Panicked
    ELSE [kind |-> "Orderings", idx |-> 0, val |-> os]
\* Option<Item> as a result: None, or Some(the one element of o)
Opt(o) == [kind |-> IF o = <<>> THEN "None" ELSE "Some", idx |-> 0, val |-> o]

\* slice::binary_search_by, the variant that halves `size` and compares once
\* more at the end; indices are zero-based, f is the closure on elements
RECURSIVE binary_search_by_halving(_, _, _, _)
binary_search_by_halving(v, f, base, size) ==
    IF Len(v) = 0 THEN Err(0)
    ELSE IF size > 1
    THEN LET half == size \div 2
             mid == base + half
             c == f[v[mid + 1]]
         IN IF c = "Panic" THEN Panicked
            ELSE binary_search_by_halving(
                    v, f, IF c = "Greater" THEN base ELSE mid, size - half)
    ELSE LET c == f[v[base + 1]]
         IN IF c = "Panic" THEN Panicked
            ELSE IF c = "Equal" THEN Ok(base)
            ELSE Err(base + (IF c = "Less" THEN 1 ELSE 0))

\* slice::binary_search_by, the variant that returns at the first Equal
RECURSIVE binary_search_by_early(_, _, _, _)
binary_search_by_early(v, f, left, right) ==
    IF left < right
    THEN LET mid == left + ((right - left) \div 2)
             c == f[v[mid + 1]]
         IN CASE c = "Panic" -> Panicked
              [] c = "Less" -> binary_search_by_early(v, f, mid + 1, right)
              [] c = "Greater" -> binary_search_by_early(v, f, left, mid)
              [] OTHER -> Ok(mid)
    ELSE Err(left)

\* which of several equal elements is found depends on the std version
binary_search_by(v, f) ==
    {binary_search_by_halving(v, f, 0, Len(v)),
     binary_search_by_early(v, f, 0, Len(v))}

\* the search that ranks values outside the order below the target
ord_subset_binary_search_by_unordered_less(v, f) ==
    binary_search_by(v,
        [other \in Elem |->
           IF is_outside_order(other) THEN "Less" ELSE f[other]])

\* the closure ord_subset_binary_search_by hands to binary_search_by
search_closure(f) ==
    [other \in Elem |->
       IF is_outside_order(other) THEN "Greater" ELSE f[other]]

ord_subset_binary_search_by(v, f) == binary_search_by(v, search_closure(f))

\* the search that compares the target to the element
ord_subset_binary_search_swapped(v, x) ==
    IF is_outside_order(x) THEN {Panicked}
    ELSE ord_subset_binary_search_by(v,
            [other \in Elem |-> expect(partial_cmp(x, other))])

ord_subset_binary_search(v, x) ==
    IF is_outside_order(x) THEN {Panicked}
    ELSE ord_subset_binary_search_by(v,
            [other \in Elem |-> expect(partial_cmp(other, x))])

\* the keyed search that ranks keys outside the order below the target
ord_subset_binary_search_by_key_less(v, b, f) ==
    IF is_outside_order(b) THEN {Panicked}
    ELSE binary_search_by(v,
            [k \in Elem |->
               compare_unordered_less_everything(f[k], b, cmp_ord)])

\* the keyed search without the test of the target key
ord_subset_binary_search_by_key_unchecked(v, b, f) ==
    binary_search_by(v,
        [k \in Elem |->
           compare_unordered_greater_everything(f[k], b, cmp_ord)])

ord_subset_binary_search_by_key(v, b, f) ==
    IF is_outside_order(b) THEN {Panicked}
    ELSE binary_search_by(v,
            [k \in Elem |->
               compare_unordered_greater_everything(f[k], b, cmp_ord)])

\* the reverse search that compares the element to the target
ord_subset_binary_search_rev_forward(v, x) ==
    IF is_outside_order(x) THEN {Panicked}
    ELSE ord_subset_binary_search_by(v,
            [other \in Elem |-> expect(partial_cmp(other, x))])

ord_subset_binary_search_rev(v, x) ==
    IF is_outside_order(x) THEN {Panicked}
    ELSE ord_subset_binary_search_by(v,
            [other \in Elem |-> expect(partial_cmp(x, other))])

\* the search of the AlmostOrd generation of the crate
partial_binary_search(v, x) ==
    IF is_outside_order(x) THEN {Panicked}
    ELSE binary_search_by(v,
            [other \in Elem |->
               IF is_outside_order(other) THEN "Greater"
               ELSE expect(partial_cmp(other, x))])

\* ------------------------------------------ the predicate on composites
\* Iterator::all in the place of Iterator::any
RECURSIVE iter_all(_, _, _)
iter_all(items, i, f) ==
    IF i > Len(items) THEN TRUE
    ELSE IF ~f[items[i]] THEN FALSE
    ELSE iter_all(items, i + 1, f)

\* Iterator::any from item i on: true at the first item f holds of, false
\* when the items run out
RECURSIVE iter_any(_, _, _)
iter_any(items, i, f) ==
    IF i > Len(items) THEN FALSE
    ELSE IF f[items[i]] THEN TRUE
    ELSE iter_any(items, i + 1, f)

\* OrdSubset::is_outside_order as the function handed to any and map_or
outside_fn == [e \in Elem |-> is_outside_order(e)]

\* impl OrdSubset for [T], and the same body for Vec, VecDeque, LinkedList
\* and BTreeSet
slice_is_outside_order(v) == iter_any(v, 1, outside_fn)

\* impl OrdSubset for [T; N]: (&self[..]).is_outside_order()
array_is_outside_order(v) == slice_is_outside_order(SubSeq(v, 1, Len(v)))

\* impl OrdSubset for Option<T>: self.as_ref().map_or(false, ..)
Option_is_outside_order(o) == IF o = <<>> THEN FALSE ELSE outside_fn[o[1]]

\* tuple_impls: self.0.is_outside_order() || self.1.is_outside_order() ||
\* .. over the fields of a tuple of one field or more, from field i on
RECURSIVE tuple_is_outside_order_from(_, _)
tuple_is_outside_order_from(t, i) ==
    IF i = Len(t) THEN is_outside_order(t[i])
    ELSE is_outside_order(t[i]) \/ tuple_is_outside_order_from(t, i + 1)

tuple_is_outside_order(t) == tuple_is_outside_order_from(t, 1)

\* impl OrdSubset for BTreeMap<K, V>: any over the entries (k, v) of
\* k.is_outside_order() || v.is_outside_order()
BTreeMap_is_outside_order(entries) ==
    iter_any(entries, 1,
             [kv \in Elem \X Elem |->
                is_outside_order(kv[1]) \/ is_outside_order(kv[2])])

\* the composites made of the elements of a slice v: the slice itself, the
\* array and the Vec of its elements, its first element as an Option, the
\* tuple of its elements, and the map of the entries (v[i], v[i+1])
Composites == {"slice", "array", "Vec", "Option", "tuple", "BTreeMap"}

composite_is_outside_order(c, v) ==
    LET first == IF v = <<>> THEN <<>> ELSE <<v[1]>>
        entries == [i \in 1..(IF Len(v) = 0 THEN 0 ELSE Len(v) - 1) |->
                      <<v[i], v[i + 1]>>]
    IN CASE c = "slice" -> slice_is_outside_order(v)
         [] c = "array" -> array_is_outside_order(v)
         [] c = "Vec" -> slice_is_outside_order(v)
         [] c = "Option" -> Option_is_outside_order(first)
         [] c = "tuple" -> tuple_is_outside_order(v)
         [] c = "BTreeMap" -> BTreeMap_is_outside_order(entries)

\* ----------------------------------------- the comparison of composites
\* the comparison of sequences that has no answer for two sequences of
\* different lengths whose common items are equal
RECURSIVE lexicographic_same_length(_, _, _)
lexicographic_same_length(a, b, i) ==
    IF i > Len(a) \/ i > Len(b)
    THEN IF Len(a) # Len(b) THEN "None" ELSE "Equal"
    ELSE IF partial_cmp(a[i], b[i]) = "Equal"
         THEN lexicographic_same_length(a, b, i + 1)
         ELSE partial_cmp(a[i], b[i])

\* PartialOrd of [T], of Vec and of tuples, the supertrait the impls of
\* OrdSubset rely on: the first pair of items that does not compare Equal
\* decides (a None included), then the lengths do
RECURSIVE lexicographic(_, _, _)
lexicographic(a, b, i) ==
    IF i > Len(a) \/ i > Len(b)
    THEN IF Len(a) < Len(b) THEN "Less"
         ELSE IF Len(a) > Len(b) THEN "Greater"
         ELSE "Equal"
    ELSE IF partial_cmp(a[i], b[i]) = "Equal"
         THEN lexicographic(a, b, i + 1)
         ELSE partial_cmp(a[i], b[i])

\* PartialOrd of Option<T>: None < Some(_), two Some by their values
Option_partial_cmp(a, b) ==
    CASE a = <<>> /\ b = <<>> -> "Equal"
      [] a = <<>> -> "Less"
      [] b = <<>> -> "Greater"
      [] OTHER -> partial_cmp(a[1], b[1])

\* the composites that are compared: two values of one type
Comparables == {"slice", "array", "Vec", "Option", "tuple"}

SameType(c, a, b) ==
    CASE c = "Option" -> Len(a) <= 1 /\ Len(b) <= 1
      [] c = "array" -> Len(a) = Len(b)
      [] c = "tuple" -> Len(a) = Len(b) /\ Len(a) >= 1
      [] OTHER -> TRUE

composite_partial_cmp(c, a, b) ==
    IF c = "Option" THEN Option_partial_cmp(a, b)
    ELSE lexicographic(a, b, 1)

\* ------------------------------------------------- the ordered wrappers
\* OrdVar(data) and OrderedVal(data): one field holding the value
OrdVar(data) == [inner |-> data]

\* the constructor without the test of the value
new_untested(data) == Wrapped(OrdVar(data))

\* OrdVar::new / OrderedVal::new: panics on a value outside the order
new(data) ==
    IF is_outside_order(data) THEN Panicked ELSE Wrapped(OrdVar(data))

\* the checked constructor with its two arms exchanged
new_checked_exchanged(data) ==
    IF is_outside_order(data) THEN <<OrdVar(data)>> ELSE <<>>

\* the checked constructor that lets every value through
new_checked_unfiltered(data) == <<[inner |-> data]>>

\* OrdVar::new_checked / OrderedVal::new_checked: None for a value outside
\* the order (an Option is a sequence of at most one value)
new_checked(data) ==
    IF is_outside_order(data) THEN <<>> ELSE <<OrdVar(data)>>

\* OrdVar::new_unchecked / OrderedVal::new_unchecked
new_unchecked(data) == OrdVar(data)

\* OrdVar::into_inner, and .0 of OrderedVal
into_inner(w) == w.inner

\* the comparison that takes an absent partial comparison for Equal
OrdVar_cmp_or_equal(a, b) ==
    IF partial_cmp(a.inner, b.inner) = "None" THEN "Equal"
    ELSE partial_cmp(a.inner, b.inner)

\* impl Ord for OrdVar / OrderedVal: the derived partial_cmp of the one
\* field, expected to be Some
OrdVar_cmp(a, b) == expect(partial_cmp(a.inner, b.inner))

\* the derived Ord of Option<OrderedVal<B>>: None < Some(_)
Option_cmp(a, b) ==
    CASE a = <<>> /\ b = <<>> -> "Equal"
      [] a = <<>> -> "Less"
      [] b = <<>> -> "Greater"
      [] OTHER -> OrdVar_cmp(a[1], b[1])

\* struct RevOption<T>(Option<T>) of lib.rs
RevOption(o) == [opt |-> o]

\* impl Ord for RevOption in lib.rs: other.0.cmp(&self.0)
RevOption_cmp(a, b) == Option_cmp(b.opt, a.opt)

OrdVars == {OrdVar(e) : e \in Elem}
OptKeys == {<<>>} \cup {<<OrdVar(k)>> : k \in Key}
RevOptKeys == {RevOption(o) : o \in OptKeys}

\* ------------------------------------------------- operators on OrdVar
\* The floats of the operators: <<0, n>> is the finite value n, <<1, s>> the
\* infinity of sign s and <<NaN, 0>> the NaN, so that is_outside_order tells
\* as for the elements.  A finite result beyond MaxNum overflows to an
\* infinity; a quotient is rounded towards zero.
finite(n) == <<0, n>>
infinity(s) == <<1, s>>
nan == <<NaN, 0>>

OpsFloat ==
    {finite(n) : n \in (0 - MaxNum)..MaxNum} \cup {infinity(1), infinity(-1), nan}

is_nan(v) == v[1] = NaN
is_infinite(v) == v[1] = 1
signum(n) == IF n > 0 THEN 1 ELSE IF n < 0 THEN -1 ELSE 0
abs(n) == IF n < 0 THEN 0 - n ELSE n

round(n) ==
    IF n > MaxNum THEN infinity(1)
    ELSE IF n < 0 - MaxNum THEN infinity(-1)
    ELSE finite(n)

\* Neg for f64
f64_neg(a) == IF is_nan(a) THEN nan ELSE <<a[1], 0 - a[2]>>

\* Add for f64: inf + -inf is NaN
f64_add(a, b) ==
    CASE is_nan(a) \/ is_nan(b) -> nan
      [] is_infinite(a) /\ is_infinite(b) -> IF a[2] = b[2] THEN a ELSE nan
      [] is_infinite(a) -> a
      [] is_infinite(b) -> b
      [] OTHER -> round(a[2] + b[2])

\* Sub for f64
f64_sub(a, b) == f64_add(a, f64_neg(b))

\* Mul for f64: 0 * inf is NaN
f64_mul(a, b) ==
    CASE is_nan(a) \/ is_nan(b) -> nan
      [] is_infinite(a) \/ is_infinite(b) ->
           IF a[2] = 0 \/ b[2] = 0 THEN nan
           ELSE infinity(signum(a[2]) * signum(b[2]))
      [] OTHER -> round(a[2] * b[2])

\* Div for f64: 0 / 0 and inf / inf are NaN, x / 0 is an infinity
f64_div(a, b) ==
    CASE is_nan(a) \/ is_nan(b) -> nan
      [] is_infinite(a) /\ is_infinite(b) -> nan
      [] is_infinite(a) -> infinity(IF b[2] < 0 THEN 0 - a[2] ELSE a[2])
      [] is_infinite(b) -> finite(0)
      [] b[2] = 0 -> IF a[2] = 0 THEN nan ELSE infinity(signum(a[2]))
      [] OTHER -> finite(signum(a[2]) * signum(b[2]) * (abs(a[2]) \div abs(b[2])))

\* Rem for f64: inf % x and x % 0 are NaN
f64_rem(a, b) ==
    CASE is_nan(a) \/ is_nan(b) -> nan
      [] is_infinite(a) -> nan
      [] is_infinite(b) -> a
      [] b[2] = 0 -> nan
      [] OTHER -> finite(signum(a[2]) * (abs(a[2]) % abs(b[2])))

\* the infix operators the wrapper forwards to the value it holds
InfixOps == {"add", "sub", "mul", "div", "rem"}

infix(op, a, b) ==
    CASE op = "add" -> f64_add(a, b)
      [] op = "sub" -> f64_sub(a, b)
      [] op = "mul" -> f64_mul(a, b)
      [] op = "div" -> f64_div(a, b)
      [] op = "rem" -> f64_rem(a, b)

\* feature "unchecked_ops"
unchecked_ops == FALSE

\* ops::construct with the feature on
construct_unchecked(t) == Wrapped(new_unchecked(t))

\* ops::construct
construct(t) ==
    IF unchecked_ops THEN Wrapped(new_unchecked(t)) ELSE new(t)

\* impl Add / Sub / Mul / Div / Rem for OrdVar
OrdVar_infix(op, w, rhs) == construct(infix(op, into_inner(w), rhs))

\* impl Neg for OrdVar
OrdVar_neg(w) == construct(f64_neg(into_inner(w)))

\* impl AddAssign / .. / RemAssign for OrdVar: the value is changed in
\* place, then the assert looks at it
OrdVar_assign(op, w, rhs) ==
    LET changed == OrdVar(infix(op, w.inner, rhs))
    IN [panic |-> ~unchecked_ops /\ is_outside_order(changed.inner),
        w |-> changed]

\* --------------------------------------------------------- the reductions
\* the fold of Iterator::max, min, max_by and min_by over (key, item) pairs:
\* the next pair replaces the best one when it compares `want` to it, and on
\* a tie when `tie` holds (for max, max_by and min_by which one of several
\* equal elements is kept depends on the std version; min keeps the first
\* one in all of them)
RECURSIVE select_fold(_, _, _, _, _, _)
select_fold(pairs, i, best, cmp, want, tie) ==
    IF i > Len(pairs) THEN [panic |-> FALSE, val |-> <<best[2]>>]
    ELSE LET c == cmp[<<pairs[i][1], best[1]>>] IN
         IF c = "Panic" THEN [panic |-> TRUE, val |-> <<>>]
         ELSE select_fold(pairs, i + 1,
                          IF c = want \/ (c = "Equal" /\ tie)
                          THEN pairs[i] ELSE best,
                          cmp, want, tie)

select(pairs, cmp, want, tie) ==
    IF pairs = <<>> THEN [panic |-> FALSE, val |-> <<>>]
    ELSE select_fold(pairs, 2, pairs[1], cmp, want, tie)

\* the maximum that keeps the lesser of two items
iter_max_keeps_less(items, tie) ==
    select([i \in 1..Len(items) |-> <<items[i], items[i]>>],
           [p \in OrdVars \X OrdVars |-> OrdVar_cmp(p[1], p[2])],
           "Less", tie)

\* Iterator::max / Iterator::min of a sequence of wrappers
iter_max(items, tie) ==
    select([i \in 1..Len(items) |-> <<items[i], items[i]>>],
           [p \in OrdVars \X OrdVars |-> OrdVar_cmp(p[1], p[2])],
           "Greater", tie)

\* the minimum that lets a later element replace an equal earlier one
iter_min_last(items) ==
    select([i \in 1..Len(items) |-> <<items[i], items[i]>>],
           [p \in OrdVars \X OrdVars |-> OrdVar_cmp(p[1], p[2])],
           "Less", TRUE)

iter_min(items) ==
    select([i \in 1..Len(items) |-> <<items[i], items[i]>>],
           [p \in OrdVars \X OrdVars |-> OrdVar_cmp(p[1], p[2])],
           "Less", FALSE)

\* .filter_map(OrdVar::new_checked)
filter_map_new_checked(v) ==
    LET kept == SelectSeq(v, LAMBDA e : new_checked(e) # <<>>)
    IN [i \in 1..Len(kept) |-> new_checked(kept[i])[1]]

\* .filter(AlmostOrd::is_on_order).map(OrderedVal::new_unchecked)
filter_map_new_unchecked(v) ==
    LET kept == SelectSeq(v, LAMBDA e : ~is_outside_order(e))
    IN [i \in 1..Len(kept) |-> new_unchecked(kept[i])]

\* .map(|m| m.into_inner()) on the Option the fold returns
unwrap_result(r) ==
    IF r.panic THEN Panicked
    ELSE Opt([i \in 1..Len(r.val) |-> into_inner(r.val[i])])

\* iter_ext.rs
partial_max(v, tie) == unwrap_result(iter_max(filter_map_new_checked(v), tie))

partial_min(v) == unwrap_result(iter_min(filter_map_new_checked(v)))

\* lib.rs
lib_partial_max(v, tie) ==
    unwrap_result(iter_max(filter_map_new_unchecked(v), tie))

lib_partial_min(v) ==
    unwrap_result(iter_min(filter_map_new_unchecked(v)))

\* self.min_by(|it| RevOption(OrderedVal::new_checked(f(it))))
partial_min_by(v, f, tie) ==
    LET r == select([i \in 1..Len(v) |->
                       <<RevOption(new_checked(f[v[i]])), v[i]>>],
                    [p \in RevOptKeys \X RevOptKeys |->
                       RevOption_cmp(p[1], p[2])],
                    "Less", tie)
    IN IF r.panic THEN Panicked ELSE Opt(r.val)

\* the keyed maximum that wraps the keys unchecked
partial_max_by_unchecked(v, f, tie) ==
    LET r == select([i \in 1..Len(v) |-> <<(<<new_unchecked(f[v[i]])>>), v[i]>>],
                    [p \in OptKeys \X OptKeys |-> Option_cmp(p[1], p[2])],
                    "Greater", tie)
    IN IF r.panic THEN Panicked ELSE Opt(r.val)

\* self.max_by(|it| OrderedVal::new_checked(f(it)))
partial_max_by(v, f, tie) ==
    LET r == select([i \in 1..Len(v) |-> <<new_checked(f[v[i]]), v[i]>>],
                    [p \in OptKeys \X OptKeys |-> Option_cmp(p[1], p[2])],
                    "Greater", tie)
    IN IF r.panic THEN Panicked ELSE Opt(r.val)

\* ------------------------------------------------ key functions of callers
\* the closures the keyed operations are called with
KeyFns == {"float", "neg", "tag", "sqrt_m1"}

KeyFn(name) ==
    CASE name = "float" -> [e \in Elem |-> <<e[1]>>]
      [] name = "neg" ->
           [e \in Elem |-> IF e[1] = NaN THEN <<NaN>> ELSE <<MaxNum - e[1]>>]
      [] name = "tag" -> [e \in Elem |-> <<e[2]>>]
      [] name = "sqrt_m1" ->
           [e \in Elem |-> IF e[1] = NaN \/ e[1] < 1 THEN <<NaN>>
                           ELSE <<e[1] - 1>>]

\* ------------------------------------------------- comparators of callers
\* the closures ord_subset_sort_by and ord_subset_sort_unstable_by are
\* called with: the natural order, its reverse, the order of the payloads,
\* and |_, _| Equal
Compares == {"fwd", "rev", "tag", "equal"}

Compare(name) ==
    CASE name = "fwd" -> cmp_fwd
      [] name = "rev" -> cmp_rev
      [] name = "tag" ->
           [p \in Elem \X Elem |->
              IF p[1][2] < p[2][2] THEN "Less"
              ELSE IF p[1][2] > p[2][2] THEN "Greater" ELSE "Equal"]
      [] name = "equal" -> [p \in Elem \X Elem |-> "Equal"]

\* the closures ord_subset_binary_search_by is called with: the comparison
\* with a target x, and |_| Equal
Probe(name, x) ==
    CASE name = "fwd" -> [other \in Elem |-> expect(partial_cmp(other, x))]
      [] name = "equal" -> [other \in Elem |-> "Equal"]

\* a closure that only tells that it has been called
called2 == [p \in Elem \X Elem |-> "Called"]
called1 == [other \in Elem |-> "Called"]

\* the pairs of elements of v that reach the caller's comparator when the
\* underlying sort compares them (which pairs it compares is up to the sort)
sort_by_passes(v) ==
    {<<v[i], v[j]>> : i, j \in 1..Len(v)} \cap
    {p \in Elem \X Elem :
        compare_unordered_greater_everything(p[1], p[2], called2) = "Called"}

\* the elements of v that reach the caller's closure when the underlying
\* search probes them
search_by_passes(v) ==
    {<<v[i]>> : i \in {j \in 1..Len(v) : search_closure(called1)[v[j]] = "Called"}}

\* ---------------------------------------------------------------- state
VARIABLES
    slice,   \* the caller's slice (the items of its iterator)
    input,   \* the slice as it was when the last operation was called
    call,    \* the last operation and its arguments
    ret,     \* what the last operation returned
    seen,    \* the arguments the caller's comparator may have been called with
    acc      \* the OrdVar the caller holds (an Option), for the operators

vars == <<slice, input, call, ret, seen, ty, acc>>

Call(op, x, b, f) == [op |-> op, x |-> x, b |-> b, f |-> f]

Init ==
    /\ slice \in Slices
    /\ input = slice
    /\ call = Call("none", <<>>, <<>>, "")
    /\ ret = Unit
    /\ seen = {}
    /\ ty = "f64"
    /\ acc = <<>>

\* the same slices, of the type that breaks the contract
InitLax ==
    /\ slice \in Slices
    /\ input = slice
    /\ call = Call("none", <<>>, <<>>, "")
    /\ ret = Unit
    /\ seen = {}
    /\ ty = "Lax"
    /\ acc = <<>>

\* Every behaviour is one call on a slice the caller has built: the
\* operations keep nothing between calls, and every slice a sort could
\* leave behind is itself an initial slice.
Fresh == call.op = "none"

\* a sort leaves the slice as the underlying sort left it
SortedBy(op, f, r, passes) ==
    /\ input' = slice
    /\ slice' = r.v
    /\ call' = Call(op, <<>>, <<>>, f)
    /\ ret' = IF r.panic THEN Panicked ELSE Unit
    /\ seen' = passes
    /\ UNCHANGED <<ty, acc>>

Sorted(op, f, r) == SortedBy(op, f, r, {})

\* a search or a reduction only reads the slice
ReturnedBy(op, x, b, f, r, passes) ==
    /\ input' = slice
    /\ slice' = slice
    /\ call' = Call(op, x, b, f)
    /\ ret' = r
    /\ seen' = passes
    /\ UNCHANGED <<ty, acc>>

Returned(op, x, b, f, r) == ReturnedBy(op, x, b, f, r, {})

OrdSubsetSort ==
    /\ Fresh
    /\ Sorted("ord_subset_sort", "", ord_subset_sort(slice))

OrdSubsetSortBy ==
    /\ Fresh
    /\ \E c \in Compares :
        SortedBy("ord_subset_sort_by", c, ord_subset_sort_by(slice, Compare(c)),
                 sort_by_passes(slice))

OrdSubsetSortUnstableBy ==
    /\ Fresh
    /\ \E c \in Compares :
        \E r \in ord_subset_sort_unstable_by(slice, Compare(c)) :
            SortedBy("ord_subset_sort_unstable_by", c, r, sort_by_passes(slice))

OrdSubsetBinarySearchBy ==
    /\ Fresh
    /\ \E c \in {"fwd", "equal"}, x \in {e \in Elem : ~is_outside_order(e)} :
        \E r \in ord_subset_binary_search_by(slice, Probe(c, x)) :
            ReturnedBy("ord_subset_binary_search_by", <<x>>, <<>>, c, r,
                       search_by_passes(slice))

OrdSubsetSortRev ==
    /\ Fresh
    /\ Sorted("ord_subset_sort_rev", "", ord_subset_sort_rev(slice))

OrdSubsetSortByKey ==
    /\ Fresh
    /\ \E f \in KeyFns :
        Sorted("ord_subset_sort_by_key", f, ord_subset_sort_by_key(slice, KeyFn(f)))

OrdSubsetSortUnstable ==
    /\ Fresh
    /\ \E r \in ord_subset_sort_unstable(slice) :
        Sorted("ord_subset_sort_unstable", "", r)

OrdSubsetSortUnstableRev ==
    /\ Fresh
    /\ \E r \in ord_subset_sort_unstable_rev(slice) :
        Sorted("ord_subset_sort_unstable_rev", "", r)

OrdSubsetSortUnstableByKey ==
    /\ Fresh
    /\ \E f \in KeyFns :
        \E r \in ord_subset_sort_unstable_by_key(slice, KeyFn(f)) :
            Sorted("ord_subset_sort_unstable_by_key", f, r)

OrdSubsetBinarySearch ==
    /\ Fresh
    /\ \E x \in Elem :
        \E r \in ord_subset_binary_search(slice, x) :
            Returned("ord_subset_binary_search", <<x>>, <<>>, "", r)

OrdSubsetBinarySearchRev ==
    /\ Fresh
    /\ \E x \in Elem :
        \E r \in ord_subset_binary_search_rev(slice, x) :
            Returned("ord_subset_binary_search_rev", <<x>>, <<>>, "", r)

OrdSubsetBinarySearchByKey ==
    /\ Fresh
    /\ \E b \in Key, f \in KeyFns :
        \E r \in ord_subset_binary_search_by_key(slice, b, KeyFn(f)) :
            Returned("ord_subset_binary_search_by_key", <<>>, <<b>>, f, r)

PartialBinarySearch ==
    /\ Fresh
    /\ \E x \in Elem :
        \E r \in partial_binary_search(slice, x) :
            Returned("partial_binary_search", <<x>>, <<>>, "", r)

PartialMax ==
    /\ Fresh
    /\ \E tie \in BOOLEAN :
        Returned("partial_max", <<>>, <<>>, "", partial_max(slice, tie))

PartialMin ==
    /\ Fresh
    /\ Returned("partial_min", <<>>, <<>>, "", partial_min(slice))

LibPartialMax ==
    /\ Fresh
    /\ \E tie \in BOOLEAN :
        Returned("lib_partial_max", <<>>, <<>>, "", lib_partial_max(slice, tie))

LibPartialMin ==
    /\ Fresh
    /\ Returned("lib_partial_min", <<>>, <<>>, "", lib_partial_min(slice))

PartialMinBy ==
    /\ Fresh
    /\ \E f \in KeyFns, tie \in BOOLEAN :
        Returned("partial_min_by", <<>>, <<>>, f, partial_min_by(slice, KeyFn(f), tie))

PartialMaxBy ==
    /\ Fresh
    /\ \E f \in KeyFns, tie \in BOOLEAN :
        Returned("partial_max_by", <<>>, <<>>, f, partial_max_by(slice, KeyFn(f), tie))

\* OrdVar::new_checked(x) for an element x of the slice
OrdVarNewChecked ==
    /\ Fresh
    /\ \E i \in 1..Len(slice) :
        Returned("new_checked", <<slice[i]>>, <<>>, "", Opt(new_checked(slice[i])))

\* OrdVar::new(x) for an element x of the slice
OrdVarNew ==
    /\ Fresh
    /\ \E i \in 1..Len(slice) :
        Returned("new", <<slice[i]>>, <<>>, "", new(slice[i]))

\* OrdVar::new_unchecked(a).cmp(&OrdVar::new_unchecked(b)) for two elements
\* a, b of the slice
OrdVarCmp ==
    /\ Fresh
    /\ \E i, j \in 1..Len(slice) :
        Returned("cmp", <<slice[i], slice[j]>>, <<>>, "",
                 Ordering(OrdVar_cmp(new_unchecked(slice[i]),
                                     new_unchecked(slice[j]))))

\* is_outside_order() of a composite made of the elements of the slice; a
\* tuple has one field at least
IsOutsideOrder ==
    /\ Fresh
    /\ \E c \in Composites :
        /\ c = "tuple" => slice # <<>>
        /\ Returned("is_outside_order", <<>>, <<>>, c,
                    Bool(composite_is_outside_order(c, slice)))

\* a.partial_cmp(&b) for two composites of one type, a made of the first k
\* elements of the slice and b of its elements from position m on
CompositePartialCmp ==
    /\ Fresh
    /\ \E c \in Comparables, k \in 0..Len(slice), m \in 1..(Len(slice) + 1) :
        LET a == SubSeq(slice, 1, k)
            b == SubSeq(slice, m, Len(slice))
            o == composite_partial_cmp(c, a, b)
        IN /\ SameType(c, a, b)
           /\ Returned("partial_cmp", <<a, b>>, <<>>, c,
                       Opt(IF o = "None" THEN <<>> ELSE <<o>>))

\* partial_sort of lib.rs; seen holds what its closure answers for the
\* pairs of different elements of the slice
PartialSort ==
    /\ Fresh
    /\ SortedBy("partial_sort", "", partial_sort(slice),
                {<<slice[q[1]], slice[q[2]],
                   partial_sort_compare(slice[q[1]], slice[q[2]])>> :
                    q \in {r \in (1..Len(slice)) \X (1..Len(slice)) : r[1] # r[2]}})

\* partial_min and partial_max of the items of the slice, and then
\* ord_subset_sort of the slice
ReduceAndSort ==
    /\ Fresh
    /\ \E tie \in BOOLEAN :
        LET mn == partial_min(slice)
            mx == partial_max(slice, tie)
            r == ord_subset_sort(slice)
        IN /\ input' = slice
           /\ slice' = r.v
           /\ call' = Call("reduce_and_sort", <<>>, <<>>, "")
           /\ ret' = IF r.panic \/ mn = Panicked \/ mx = Panicked THEN Panicked
                     ELSE [kind |-> "MinMax", idx |-> 0, val |-> <<mn.val, mx.val>>]
           /\ seen' = {}
           /\ UNCHANGED <<ty, acc>>

\* the comparator the sorts hand to the underlying sort, applied to the
\* first two elements of the slice
CompareUnorderedGreaterEverything ==
    /\ Fresh
    /\ Len(slice) >= 2
    /\ \E c \in Compares :
        Returned("compare_unordered_greater_everything",
                 <<slice[1], slice[2]>>, <<>>, c,
                 Ordering(compare_unordered_greater_everything(
                             slice[1], slice[2], Compare(c))))

\* the same comparator applied to the pairs (a, b), (b, a), (b, c) and
\* (a, c) of the first three elements a, b, c of the slice, as a sort does
\* when it compares them
CompareThree ==
    /\ Fresh
    /\ Len(slice) >= 3
    /\ \E c \in Compares :
        LET cmp(x, y) == compare_unordered_greater_everything(x, y, Compare(c))
            a == slice[1]
            b == slice[2]
            d == slice[3]
        IN Returned("compare_three", <<a, b, d>>, <<>>, c,
                    Orderings(<<cmp(a, b), cmp(b, a), cmp(b, d), cmp(a, d)>>))

Next ==
    \/ OrdSubsetSort
    \/ OrdSubsetSortBy
    \/ OrdSubsetSortUnstableBy
    \/ OrdSubsetBinarySearchBy
    \/ OrdSubsetSortRev
    \/ OrdSubsetSortByKey
    \/ OrdSubsetSortUnstable
    \/ OrdSubsetSortUnstableRev
    \/ OrdSubsetSortUnstableByKey
    \/ OrdSubsetBinarySearch
    \/ OrdSubsetBinarySearchRev
    \/ OrdSubsetBinarySearchByKey
    \/ PartialBinarySearch
    \/ PartialMax
    \/ PartialMin
    \/ LibPartialMax
    \/ LibPartialMin
    \/ PartialMinBy
    \/ PartialMaxBy
    \/ OrdVarNewChecked
    \/ OrdVarNew
    \/ OrdVarCmp
    \/ IsOutsideOrder
    \/ CompositePartialCmp
    \/ CompareUnorderedGreaterEverything
    \/ CompareThree
    \/ PartialSort
    \/ ReduceAndSort

Spec == Init /\ [][Next]_vars

\* the operations that compare the elements themselves, on the type that
\* breaks the contract
NextLax ==
    \/ OrdSubsetSort
    \/ OrdSubsetSortRev
    \/ OrdSubsetSortUnstable
    \/ OrdSubsetSortUnstableRev
    \/ OrdSubsetBinarySearch

SpecLax == InitLax /\ [][NextLax]_vars

\* ------------------------------------------- a caller that uses operators
\* no slice, and no OrdVar yet
InitOps ==
    /\ slice = <<>>
    /\ input = <<>>
    /\ call = Call("none", <<>>, <<>>, "")
    /\ ret = Unit
    /\ seen = {}
    /\ ty = "f64"
    /\ acc = <<>>

\* a panic unwinds the caller: nothing is called after it
Running == ret # Panicked

\* the outcome r of a constructor or of an operator that returns a new
\* OrdVar: the caller holds it from now on, unless r is the panic
Held(op, x, f, r) ==
    /\ call' = Call(op, x, <<>>, f)
    /\ ret' = r
    /\ acc' = IF r.kind = "Wrapped" THEN r.val ELSE acc
    /\ UNCHANGED <<slice, input, seen, ty>>

\* let v = OrdVar::new(x)
OpsNew ==
    /\ Running
    /\ \E x \in OpsFloat : Held("new", <<x>>, "", new(x))

\* if let Some(v) = OrdVar::new_checked(x)
OpsNewChecked ==
    /\ Running
    /\ \E x \in OpsFloat :
        LET o == new_checked(x)
        IN Held("new_checked", <<x>>, "",
                IF o = <<>> THEN Opt(<<>>) ELSE Wrapped(o[1]))

\* v = v + rhs, and so for - * / %
OpsInfix ==
    /\ Running
    /\ acc # <<>>
    /\ \E op \in InfixOps, rhs \in OpsFloat :
        Held("infix", <<into_inner(acc[1]), rhs>>, op,
             OrdVar_infix(op, acc[1], rhs))

\* v = -v
OpsNeg ==
    /\ Running
    /\ acc # <<>>
    /\ Held("neg", <<into_inner(acc[1])>>, "neg", OrdVar_neg(acc[1]))

\* v += rhs, and so for -= *= /= %=: the OrdVar is changed where it is
OpsAssign ==
    /\ Running
    /\ acc # <<>>
    /\ \E op \in InfixOps, rhs \in OpsFloat :
        LET r == OrdVar_assign(op, acc[1], rhs)
        IN /\ call' = Call("assign", <<into_inner(acc[1]), rhs>>, <<>>, op)
           /\ ret' = IF r.panic THEN Panicked ELSE Unit
           /\ acc' = <<r.w>>
           /\ UNCHANGED <<slice, input, seen, ty>>

NextOps ==
    \/ OpsNew
    \/ OpsNewChecked
    \/ OpsInfix
    \/ OpsNeg
    \/ OpsAssign

SpecOps == InitOps /\ [][NextOps]_vars

TypeOK ==
    /\ slice \in Slices
    /\ input \in Slices
    /\ ret.kind \in {"Unit", "Panic", "Ok", "Err", "Some", "None", "Wrapped",
                    "Less", "Equal", "Greater", "true", "false", "Orderings",
                    "MinMax"}

\* ------------------------------------------------------------ properties
Outside(s) == {i \in 1..Len(s) : is_outside_order(s[i])}
Inside(s) == {i \in 1..Len(s) : ~is_outside_order(s[i])}

\* the postcondition of the ascending sorts: values inside the order first,
\* ascending; values outside the order after all of them
SortPost(s) ==
    \A i, j \in 1..Len(s) :
        i < j =>
            /\ is_outside_order(s[i]) => is_outside_order(s[j])
            /\ (~is_outside_order(s[i]) /\ ~is_outside_order(s[j]))
                  => partial_cmp(s[i], s[j]) \in {"Less", "Equal"}

\* C1: after ord_subset_sort or ord_subset_sort_unstable every value outside
\* the order is at a higher index than every value inside it, and a value
\* inside the order that precedes another one is less than or equal to it.
C1_SortPostcondition ==
    call.op \in {"ord_subset_sort", "ord_subset_sort_unstable"}
        => /\ ret = Unit
           /\ \A i \in Outside(slice), j \in Inside(slice) : j < i
           /\ \A i, j \in Inside(slice) :
                 i < j => partial_cmp(slice[i], slice[j]) \in {"Less", "Equal"}

\* an input with a NaN in front of two ordered values that are out of order
C1_Witness ==
    /\ call.op = "ord_subset_sort"
    /\ Len(input) = 3
    /\ is_outside_order(input[1])
    /\ partial_cmp(input[2], input[3]) = "Greater"
    /\ slice # input

\* C2: partial_max and partial_min return None iff the sequence is empty or
\* all of its values are outside the order; otherwise they return a value of
\* the sequence that is inside the order and greater-or-equal (max), resp.
\* less-or-equal (min), to every value of the sequence inside the order.
C2_MaxMin ==
    call.op \in {"partial_max", "partial_min", "lib_partial_max", "lib_partial_min"}
        => /\ ret.kind \in {"Some", "None"}
           /\ ret.kind = "None" <=> Inside(input) = {}
           /\ ret.kind = "Some" =>
                LET m == ret.val[1]
                    bound == IF call.op \in {"partial_max", "lib_partial_max"}
                             THEN "Greater" ELSE "Less"
                IN /\ \E i \in Inside(input) : input[i] = m
                   /\ \A i \in Inside(input) :
                         partial_cmp(m, input[i]) \in {bound, "Equal"}

\* a maximum that is neither the first nor the last value, next to a NaN
C2_Witness ==
    /\ call.op = "partial_max"
    /\ Len(input) = 3
    /\ is_outside_order(input[3])
    /\ partial_cmp(input[1], input[2]) = "Greater"
    /\ ret.kind = "Some"
    /\ ret.val[1] = input[1]

\* the target of a search (the value, or the key of the keyed search)
Target == IF call.b # <<>> THEN call.b[1] ELSE call.x[1]

\* C3: on a slice that satisfies the sort postcondition,
\* ord_subset_binary_search for a value x inside the order that is in the
\* slice returns Ok(j) with the value at j inside the order and equal to x;
\* when the values inside the order are pairwise distinct, j is where x is.
C3_SearchFound ==
    (/\ call.op = "ord_subset_binary_search"
     /\ SortPost(input)
     /\ \E i \in Inside(input) : input[i] = Target)
        => /\ ret.kind = "Ok"
           /\ ret.idx + 1 \in Inside(input)
           /\ partial_cmp(input[ret.idx + 1], Target) = "Equal"
           /\ (\A i, j \in Inside(input) :
                  i # j => partial_cmp(input[i], input[j]) # "Equal")
                 => input[ret.idx + 1] = Target

\* the last ordered value of a slice that ends in a NaN is found
C3_Witness ==
    /\ call.op = "ord_subset_binary_search"
    /\ SortPost(input)
    /\ Len(input) = 3
    /\ is_outside_order(input[3])
    /\ partial_cmp(input[1], input[2]) = "Less"
    /\ Target = input[2]
    /\ ret = Ok(1)

\* C4: on a slice that satisfies the sort postcondition,
\* ord_subset_binary_search for a value y inside the order that no value of
\* the slice equals returns Err(k), k the number of values inside the order
\* that are less than y (so k is at most the number of values inside the
\* order).
C4_SearchNotFound ==
    (/\ call.op = "ord_subset_binary_search"
     /\ SortPost(input)
     /\ ~is_outside_order(Target)
     /\ \A i \in 1..Len(input) : partial_cmp(input[i], Target) # "Equal")
        => /\ ret.kind = "Err"
           /\ ret.idx = Cardinality({i \in Inside(input) :
                                       partial_cmp(input[i], Target) = "Less"})
           /\ ret.idx <= Cardinality(Inside(input))

\* a target greater than every ordered value gets the index of the first NaN
C4_Witness ==
    /\ call.op = "ord_subset_binary_search"
    /\ SortPost(input)
    /\ Len(input) = 3
    /\ is_outside_order(input[2])
    /\ partial_cmp(input[1], Target) = "Less"
    /\ ret = Err(1)

\* C5: ord_subset_binary_search, ord_subset_binary_search_rev and
\* ord_subset_binary_search_by_key (and partial_binary_search) panic whenever
\* the target, resp. the target key, is outside the order, on every slice,
\* the empty one included.
C5_SearchOutsidePanics ==
    (/\ call.op \in {"ord_subset_binary_search", "ord_subset_binary_search_rev",
                     "ord_subset_binary_search_by_key", "partial_binary_search"}
     /\ is_outside_order(Target))
        => ret = Panicked

\* a keyed search for a NaN key in the empty slice
C5_Witness ==
    /\ call.op = "ord_subset_binary_search_by_key"
    /\ is_outside_order(Target)
    /\ input = <<>>
    /\ ret = Panicked

\* C6: after ord_subset_sort_rev or ord_subset_sort_unstable_rev the values
\* inside the order are in front, in non-increasing order: position by
\* position they equal the reverse of the ascending sort of the values inside
\* the order; every value outside the order is still after all of them.
C6_SortRev ==
    call.op \in {"ord_subset_sort_rev", "ord_subset_sort_unstable_rev"}
        => /\ ret = Unit
           /\ \A i \in Outside(slice), j \in Inside(slice) : j < i
           /\ \A i, j \in Inside(slice) :
                 i < j => partial_cmp(slice[i], slice[j]) \in {"Greater", "Equal"}
           /\ LET asc == ord_subset_sort(input).v
                  k == Cardinality(Inside(input))
              IN /\ Cardinality(Inside(slice)) = k
                 /\ \A i \in 1..k :
                       partial_cmp(slice[i], asc[k + 1 - i]) = "Equal"

\* a NaN in front of two ordered values that are in ascending order
C6_Witness ==
    /\ call.op = "ord_subset_sort_rev"
    /\ Len(input) = 3
    /\ is_outside_order(input[1])
    /\ partial_cmp(input[2], input[3]) = "Less"
    /\ slice = <<input[3], input[2], input[1]>>

\* the key of an element under the key function of the call
KeyOf(e) == KeyFn(call.f)[e]
OutsideKey(s) == {i \in 1..Len(s) : is_outside_order(KeyOf(s[i]))}
InsideKey(s) == {i \in 1..Len(s) : ~is_outside_order(KeyOf(s[i]))}

\* what slice::sort_by_key / sort_unstable_by_key with the key
\* OrdVar::new(f(e)) make of the elements whose key is inside the order
SortedByKeyInside(stable) ==
    LET kept == SelectSeq(input, LAMBDA e : ~is_outside_order(KeyOf(e)))
        by_key == [p \in Elem \X Elem |->
                     OrdVar_cmp(OrdVar(KeyOf(p[1])), OrdVar(KeyOf(p[2])))]
    IN IF stable THEN {sort_by(kept, Len(kept), by_key).v}
       ELSE {r.v : r \in sort_unstable_by(kept, by_key)}

\* C7: after ord_subset_sort_by_key (or the unstable variant) with key
\* function f, every element whose key is outside the order is after every
\* element whose key is inside it, and the leading part is what sorting by f
\* only the elements whose key is inside the order gives.
C7_SortByKey ==
    call.op \in {"ord_subset_sort_by_key", "ord_subset_sort_unstable_by_key"}
        => /\ ret = Unit
           /\ \A i \in OutsideKey(slice), j \in InsideKey(slice) : j < i
           /\ Len(slice) = Len(input)
           /\ SubSeq(slice, 1, Cardinality(InsideKey(input)))
                 \in SortedByKeyInside(call.op = "ord_subset_sort_by_key")

\* an ordered element whose key is NaN, in front of two elements the key
\* function puts the other way round
C7_Witness ==
    /\ call.op = "ord_subset_sort_by_key"
    /\ call.f = "sqrt_m1"
    /\ Len(input) = 3
    /\ ~is_outside_order(input[1])
    /\ is_outside_order(KeyOf(input[1]))
    /\ partial_cmp(KeyOf(input[2]), KeyOf(input[3])) = "Greater"
    /\ slice = <<input[3], input[2], input[1]>>

\* C8: partial_max_by and partial_min_by return None whenever the sequence is
\* empty or the key of every element is outside the order, and never return
\* an element whose key is outside the order.
C8_KeyedAbsent ==
    call.op \in {"partial_max_by", "partial_min_by"}
        => /\ InsideKey(input) = {} => ret.kind = "None"
           /\ ret.kind = "Some" => ~is_outside_order(KeyOf(ret.val[1]))

\* C9: when some element has a key inside the order, partial_min_by returns
\* an element of the sequence whose key is inside the order and
\* less-or-equal to every key inside the order.
C9_MinBy ==
    (call.op = "partial_min_by" /\ InsideKey(input) # {})
        => /\ ret.kind = "Some"
           /\ \E i \in InsideKey(input) : input[i] = ret.val[1]
           /\ \A i \in InsideKey(input) :
                 partial_cmp(KeyOf(ret.val[1]), KeyOf(input[i]))
                    \in {"Less", "Equal"}

\* C10: when some element has a key inside the order, partial_max_by returns
\* an element of the sequence whose key is inside the order and
\* greater-or-equal to every key inside the order.
C10_MaxBy ==
    (call.op = "partial_max_by" /\ InsideKey(input) # {})
        => /\ ret.kind = "Some"
           /\ \E i \in InsideKey(input) : input[i] = ret.val[1]
           /\ \A i \in InsideKey(input) :
                 partial_cmp(KeyOf(ret.val[1]), KeyOf(input[i]))
                    \in {"Greater", "Equal"}

\* the element with the least float has the greatest key under "neg"; the
\* sequence starts with an element whose key is NaN
C10_Witness ==
    /\ call.op = "partial_max_by"
    /\ call.f = "neg"
    /\ Len(input) = 3
    /\ is_outside_order(KeyOf(input[1]))
    /\ partial_cmp(input[2], input[3]) = "Less"
    /\ ret.kind = "Some"
    /\ ret.val[1] = input[2]
    /\ ret.val[1] # KeyOf(input[2])

\* the first position of s that holds a least (want = "Less") or a greatest
\* (want = "Greater") value among the values inside the order
FirstExtreme(s, want) ==
    CHOOSE i \in Inside(s) :
        /\ \A j \in Inside(s) : partial_cmp(s[i], s[j]) \in {want, "Equal"}
        /\ \A j \in Inside(s) :
              (j < i) => partial_cmp(s[j], s[i]) # "Equal"

\* C11: when several values inside the order are equal and minimal,
\* partial_min returns the one that comes first in the sequence.
C11_MinLeftmost ==
    (call.op \in {"partial_min", "lib_partial_min"} /\ Inside(input) # {})
        => /\ ret.kind = "Some"
           /\ ret.val[1] = input[FirstExtreme(input, "Less")]

\* two equal minimal values that differ in their payload, after a NaN and
\* before a greater value
C11_Witness ==
    /\ call.op = "partial_min"
    /\ Len(input) = 3
    /\ is_outside_order(input[1])
    /\ partial_cmp(input[2], input[3]) = "Equal"
    /\ input[2] # input[3]
    /\ ret.kind = "Some"
    /\ ret.val[1] = input[2]

\* C12: when several values inside the order are equal and maximal,
\* partial_max returns the one that comes first in the sequence.
C12_MaxLeftmost ==
    (call.op \in {"partial_max", "lib_partial_max"} /\ Inside(input) # {})
        => /\ ret.kind = "Some"
           /\ ret.val[1] = input[FirstExtreme(input, "Greater")]

\* whether the wrapped comparator of the stable sort that was called ranks
\* a and b Equal
RanksEqual(a, b) ==
    CASE call.op \in {"ord_subset_sort", "ord_subset_sort_rev"} ->
           \/ is_outside_order(a) /\ is_outside_order(b)
           \/ partial_cmp(a, b) = "Equal"
      [] call.op = "ord_subset_sort_by" ->
           \/ is_outside_order(a) /\ is_outside_order(b)
           \/ /\ ~is_outside_order(a) /\ ~is_outside_order(b)
              /\ Compare(call.f)[<<a, b>>] = "Equal"
      [] call.op = "ord_subset_sort_by_key" ->
           \/ is_outside_order(KeyOf(a)) /\ is_outside_order(KeyOf(b))
           \/ partial_cmp(KeyOf(a), KeyOf(b)) = "Equal"

\* C13: in the stable sorts (ord_subset_sort, ord_subset_sort_rev,
\* ord_subset_sort_by, ord_subset_sort_by_key) two elements the wrapped
\* comparator ranks Equal keep their relative order: equal values inside the
\* order are not swapped, and the values outside the order are at the end in
\* their original order, also after the reverse sort.
C13_Stable ==
    call.op \in {"ord_subset_sort", "ord_subset_sort_rev",
                 "ord_subset_sort_by", "ord_subset_sort_by_key"}
        => /\ ret = Unit
           /\ Len(slice) = Len(input)
           /\ \E p \in Perms(Len(input)) :
                 /\ \A i \in 1..Len(input) : slice[i] = input[p[i]]
                 /\ \A i, j \in 1..Len(input) :
                       (i < j /\ RanksEqual(slice[i], slice[j])) => p[i] < p[j]
           /\ call.op # "ord_subset_sort_by_key" =>
                 SubSeq(slice, Cardinality(Inside(input)) + 1, Len(input))
                    = SelectSeq(input, is_outside_order)

\* the reverse sort of two different NaNs followed by an ordered value
C13_Witness ==
    /\ call.op = "ord_subset_sort_rev"
    /\ Len(input) = 3
    /\ is_outside_order(input[1])
    /\ is_outside_order(input[2])
    /\ input[1] # input[2]
    /\ ~is_outside_order(input[3])
    /\ slice = <<input[3], input[1], input[2]>>

\* C14: the caller's comparator of ord_subset_sort_by /
\* ord_subset_sort_unstable_by and the caller's closure of
\* ord_subset_binary_search_by are never called with a value outside the
\* order; the wrapper alone deals with those: the sort puts them after the
\* values inside the order, the search takes them as Greater than the target
\* (so that on a slice whose NaNs are at the end the index it returns is not
\* beyond the first NaN).
C14_ComparatorNeverSeesOutside ==
    /\ call.op \in {"ord_subset_sort_by", "ord_subset_sort_unstable_by",
                    "ord_subset_binary_search_by"}
          => \A p \in seen : \A k \in 1..Len(p) : ~is_outside_order(p[k])
    /\ call.op \in {"ord_subset_sort_by", "ord_subset_sort_unstable_by"}
          => /\ ret = Unit
             /\ \A i \in Outside(slice), j \in Inside(slice) : j < i
    /\ (/\ call.op = "ord_subset_binary_search_by"
        /\ \A i \in Outside(input), j \in Inside(input) : j < i)
          => /\ ret.kind \in {"Ok", "Err"}
             /\ ret.kind = "Ok" => ret.idx + 1 \in Inside(input)
             /\ ret.kind = "Err" => ret.idx <= Cardinality(Inside(input))

\* a sort by the caller's reversing comparator of a slice with a NaN in front
\* of two ordered values: the comparator is called on the ordered values
C14_Witness ==
    /\ call.op = "ord_subset_sort_by"
    /\ call.f = "rev"
    /\ Len(input) = 3
    /\ is_outside_order(input[1])
    /\ partial_cmp(input[2], input[3]) = "Less"
    /\ <<input[2], input[3]>> \in seen
    /\ slice = <<input[3], input[2], input[1]>>

\* the postcondition of the reverse sorts: values inside the order first,
\* descending; values outside the order after all of them
RevSortPost(s) ==
    \A i, j \in 1..Len(s) :
        i < j =>
            /\ is_outside_order(s[i]) => is_outside_order(s[j])
            /\ (~is_outside_order(s[i]) /\ ~is_outside_order(s[j]))
                  => partial_cmp(s[i], s[j]) \in {"Greater", "Equal"}

\* C15: on a slice whose values inside the order are descending and in front
\* of the values outside the order, ord_subset_binary_search_rev(x) returns
\* Ok(i) with the value at i equal to x when a value x inside the order is
\* in the slice, and Err(k), k the number of values inside the order that
\* are greater than x, when no value equals x.
C15_SearchRev ==
    (/\ call.op = "ord_subset_binary_search_rev"
     /\ RevSortPost(input)
     /\ ~is_outside_order(Target))
        => IF \E i \in 1..Len(input) : partial_cmp(input[i], Target) = "Equal"
           THEN /\ ret.kind = "Ok"
                /\ ret.idx + 1 \in Inside(input)
                /\ partial_cmp(input[ret.idx + 1], Target) = "Equal"
           ELSE ret = Err(Cardinality({i \in Inside(input) :
                                         partial_cmp(input[i], Target) = "Greater"}))

\* a target between the two ordered values of a descending slice that ends
\* in a NaN
C15_Witness ==
    /\ call.op = "ord_subset_binary_search_rev"
    /\ Len(input) = 3
    /\ is_outside_order(input[3])
    /\ partial_cmp(input[1], Target) = "Greater"
    /\ partial_cmp(Target, input[2]) = "Greater"
    /\ ret = Err(1)

\* the postcondition of the keyed sorts
KeySortPost(s) ==
    \A i, j \in 1..Len(s) :
        i < j =>
            /\ is_outside_order(KeyOf(s[i])) => is_outside_order(KeyOf(s[j]))
            /\ (~is_outside_order(KeyOf(s[i])) /\ ~is_outside_order(KeyOf(s[j])))
                  => partial_cmp(KeyOf(s[i]), KeyOf(s[j])) \in {"Less", "Equal"}

\* slice::binary_search_by_key(&OrdVar::new(b), |e| OrdVar::new(f(e))) on
\* the leading elements, those whose key is inside the order
StdSearchByKeyInside ==
    LET lead == SubSeq(input, 1, Cardinality(InsideKey(input)))
    IN binary_search_by(lead,
          [e \in Elem |-> OrdVar_cmp(OrdVar(KeyOf(e)), OrdVar(Target))])

\* C16: on a slice sorted by key f with the keys outside the order at the
\* end, ord_subset_binary_search_by_key(b, f) for a key b inside the order
\* answers as the standard binary search by key over the leading elements
\* whose key is inside the order: Ok(pos) with f(slice[pos]) equal to b when
\* there is such a key, and else Err with the same insertion index.
C16_SearchByKey ==
    (/\ call.op = "ord_subset_binary_search_by_key"
     /\ KeySortPost(input)
     /\ ~is_outside_order(Target))
        => IF \E i \in 1..Len(input) : partial_cmp(KeyOf(input[i]), Target) = "Equal"
           THEN /\ ret.kind = "Ok"
                /\ ret.idx + 1 \in InsideKey(input)
                /\ partial_cmp(KeyOf(input[ret.idx + 1]), Target) = "Equal"
                /\ \A r \in StdSearchByKeyInside : r.kind = "Ok"
           ELSE StdSearchByKeyInside = {ret} /\ ret.kind = "Err"

\* a key that is absent, between the keys of two elements the key function
\* reverses, in front of an element whose key is NaN
C16_Witness ==
    /\ call.op = "ord_subset_binary_search_by_key"
    /\ call.f = "neg"
    /\ Len(input) = 3
    /\ is_outside_order(KeyOf(input[3]))
    /\ partial_cmp(KeyOf(input[1]), Target) = "Less"
    /\ partial_cmp(Target, KeyOf(input[2])) = "Less"
    /\ ret = Err(1)

\* C17: OrdVar::new_checked(x) never panics; it is None exactly when x is
\* outside the order, and else Some(w) with w.into_inner() = x.
C17_NewChecked ==
    call.op = "new_checked"
        => /\ ret.kind \in {"None", "Some"}
           /\ ret.kind = "None" <=> is_outside_order(call.x[1])
           /\ ret.kind = "Some" => into_inner(ret.val[1]) = call.x[1]

\* a value inside the order went in and came out of the wrapper
C17_Witness ==
    /\ call.op = "new_checked"
    /\ ~is_outside_order(call.x[1])
    /\ ret.kind = "Some"
    /\ into_inner(ret.val[1]) = call.x[1]

\* C18: OrdVar::new(x) panics exactly when x is outside the order, and for
\* any other x returns a wrapper that holds x.
C18_New ==
    call.op = "new"
        => /\ ret = Panicked <=> is_outside_order(call.x[1])
           /\ ~is_outside_order(call.x[1]) => ret = Wrapped([inner |-> call.x[1]])

\* the constructor panicked on a NaN
C18_Witness ==
    /\ call.op = "new"
    /\ is_outside_order(call.x[1])
    /\ ret = Panicked

\* C19: cmp of two wrappers returns o when the partial comparison of the
\* values they hold is Some(o), and panics exactly when it is None.
C19_Cmp ==
    call.op = "cmp"
        => LET o == partial_cmp(call.x[1], call.x[2])
           IN /\ o # "None" => ret.kind = o
              /\ ret = Panicked <=> o = "None"

\* a wrapper made by new_unchecked around a NaN was compared to a wrapper
\* around an ordered value, and the comparison panicked
C19_Witness ==
    /\ call.op = "cmp"
    /\ is_outside_order(call.x[1])
    /\ ~is_outside_order(call.x[2])
    /\ ret = Panicked

\* the positions of the slice whose elements are constituents of the
\* composite of the call
Constituents ==
    CASE call.f = "Option" -> {i \in 1..Len(input) : i = 1}
      [] call.f = "BTreeMap" -> {i \in 1..Len(input) : Len(input) >= 2}
      [] OTHER -> 1..Len(input)

\* C20: is_outside_order of a tuple, slice, array, Vec, map or Option is true
\* exactly when one constituent at least is outside the order; it is false
\* of an empty collection and of None.
C20_Composite ==
    call.op = "is_outside_order"
        => /\ ret.kind = "true" <=> \E i \in Constituents : input[i][1] = NaN
           /\ ret.kind = "false" <=> \A i \in Constituents : input[i][1] # NaN
           /\ Constituents = {} => ret.kind = "false"

\* a slice of three with a NaN in the last place only
C20_Witness ==
    /\ call.op = "is_outside_order"
    /\ call.f = "slice"
    /\ Len(input) = 3
    /\ input[1][1] # NaN
    /\ input[2][1] # NaN
    /\ input[3][1] = NaN
    /\ ret.kind = "true"

\* a composite of the call has a constituent outside the order
HasOutside(c) == \E i \in 1..Len(c) : c[i][1] = NaN

\* C21: for the types the library implements OrdSubset for, partial_cmp of
\* two values is None when exactly one of them is outside the order.
C21_OneOutsideIsNone ==
    (/\ call.op = "partial_cmp"
     /\ HasOutside(call.x[1]) # HasOutside(call.x[2]))
        => ret.kind = "None"

Incomparable(a, b) ==
    /\ ~is_outside_order(a)
    /\ ~is_outside_order(b)
    /\ partial_cmp(a, b) = "None"

\* C23: with a type that breaks the contract, the sorts by the elements and
\* ord_subset_binary_search panic when they compare two values reported
\* inside the order that have no comparison, and only then: a sort that
\* returns has met no such pair in the slice, and a search that returns has
\* compared the target with the element it found, or with the elements on
\* both sides of the insertion point.
C23_ViolationPanics ==
    /\ call.op \in {"ord_subset_sort", "ord_subset_sort_rev",
                    "ord_subset_sort_unstable", "ord_subset_sort_unstable_rev"}
          => (ret = Panicked
                <=> \E i, j \in 1..Len(input) :
                       i # j /\ Incomparable(input[i], input[j]))
    /\ call.op = "ord_subset_binary_search"
          => /\ ret.kind \in {"Panic", "Ok", "Err"}
             /\ ret = Panicked
                   => \E i \in 1..Len(input) : Incomparable(input[i], Target)
             /\ (\A i \in 1..Len(input) : Incomparable(input[i], Target))
                   => (ret = Panicked <=> input # <<>>)
             /\ ret.kind = "Ok"
                   => partial_cmp(input[ret.idx + 1], Target) = "Equal"
             /\ ret.kind = "Err"
                   => /\ ret.idx >= 1
                         => partial_cmp(input[ret.idx], Target) = "Less"
                      /\ ret.idx < Len(input)
                         => partial_cmp(input[ret.idx + 1], Target) = "Greater"

\* a sort of three values, the last of them a NaN the type reports inside
\* the order, panicked
C23_Witness ==
    /\ ty = "Lax"
    /\ call.op = "ord_subset_sort"
    /\ Len(input) = 3
    /\ input[1][1] # NaN
    /\ input[2][1] # NaN
    /\ input[3][1] = NaN
    /\ ret = Panicked

\* C24: compare_unordered_greater_everything(a, b, compare) is Greater when
\* only a is outside the order, Less when only b is, Equal when both are, and
\* compare(a, b) when neither is.
C24_Wrapper ==
    call.op = "compare_unordered_greater_everything"
        => LET a == call.x[1]
               b == call.x[2]
           IN /\ (a[1] = NaN /\ b[1] # NaN) => ret.kind = "Greater"
              /\ (a[1] # NaN /\ b[1] = NaN) => ret.kind = "Less"
              /\ (a[1] = NaN /\ b[1] = NaN) => ret.kind = "Equal"
              /\ (a[1] # NaN /\ b[1] # NaN)
                    => ret.kind = Compare(call.f)[<<a, b>>]

\* an ordered value against a NaN, with the reversing closure: Less
C24_Witness ==
    /\ call.op = "compare_unordered_greater_everything"
    /\ call.f = "rev"
    /\ call.x[1][1] # NaN
    /\ call.x[2][1] = NaN
    /\ ret.kind = "Less"

Reverse(o) ==
    CASE o = "Less" -> "Greater"
      [] o = "Greater" -> "Less"
      [] OTHER -> o

\* C27: with a closure that is a total order of the values inside the order,
\* the wrapped comparator is a total preorder of all values: cmp(a, b) is the
\* reverse of cmp(b, a), and cmp(a, b) # Greater and cmp(b, c) # Greater imply
\* cmp(a, c) # Greater.
C27_TotalPreorder ==
    call.op = "compare_three"
        => /\ ret.kind = "Orderings"
           /\ \A i \in 1..4 : ret.val[i] \in {"Less", "Equal", "Greater"}
           /\ ret.val[1] = Reverse(ret.val[2])
           /\ (ret.val[1] # "Greater" /\ ret.val[3] # "Greater")
                 => ret.val[4] # "Greater"

\* a NaN, a second NaN and an ordered value: a = b > c under the wrapper
C27_Witness ==
    /\ call.op = "compare_three"
    /\ call.f = "fwd"
    /\ call.x[1][1] = NaN
    /\ call.x[2][1] = NaN
    /\ call.x[3][1] # NaN
    /\ ret.kind = "Orderings"
    /\ ret.val = <<"Equal", "Equal", "Greater", "Greater">>

\* C25: the closure partial_sort of lib.rs hands to the underlying sort
\* answers Equal for two values that are both outside the order.
C25_LegacyPairEqual ==
    call.op = "partial_sort"
        => \A p \in seen :
              (p[1][1] = NaN /\ p[2][1] = NaN) => p[3] = "Equal"

SortOps ==
    {"ord_subset_sort", "ord_subset_sort_rev", "ord_subset_sort_by",
     "ord_subset_sort_by_key", "ord_subset_sort_unstable",
     "ord_subset_sort_unstable_rev", "ord_subset_sort_unstable_by",
     "ord_subset_sort_unstable_by_key"}

\* how many times e is in s
Count(s, e) == Cardinality({i \in 1..Len(s) : s[i] = e})

\* C26: every sort entry point only permutes the slice: each element, values
\* outside the order included, is in the slice after the sort as many times
\* as before it.
C26_SortPermutes ==
    call.op \in SortOps
        => /\ ret = Unit
           /\ Len(slice) = Len(input)
           /\ \A e \in Elem : Count(slice, e) = Count(input, e)

\* a reverse sort that had to move a NaN from the front past two different
\* ordered values
C26_Witness ==
    /\ call.op = "ord_subset_sort_rev"
    /\ Len(input) = 3
    /\ input[1][1] = NaN
    /\ partial_cmp(input[2], input[3]) = "Less"
    /\ slice = <<input[3], input[2], input[1]>>

\* C28: with a type that keeps the contract, partial_max, partial_min, the
\* sorts by the elements and their reverse variants return normally on every
\* slice, and ord_subset_binary_search returns normally for every target
\* inside the order.
C28_NoPanic ==
    /\ call.op \in {"partial_max", "partial_min", "ord_subset_sort",
                    "ord_subset_sort_rev", "ord_subset_sort_unstable",
                    "ord_subset_sort_unstable_rev"}
          => ret # Panicked
    /\ (call.op = "ord_subset_binary_search" /\ Target[1] # NaN)
          => ret # Panicked

\* a sort of a slice of NaNs alone returned
C28_Witness ==
    /\ call.op = "ord_subset_sort_unstable"
    /\ Len(input) = 3
    /\ \A i \in 1..3 : input[i][1] = NaN
    /\ ret = Unit

\* C29: partial_min of a slice that has a value inside the order compares
\* Equal to the first element of the slice after ord_subset_sort, and
\* partial_max to the last element inside the order after it; when the slice
\* has no value inside the order both are None and the sorted slice has none
\* either.
C29_ReductionsAgreeWithSort ==
    call.op = "reduce_and_sort"
        => /\ ret.kind = "MinMax"
           /\ IF \E i \in 1..Len(input) : input[i][1] # NaN
              THEN LET last == CHOOSE i \in 1..Len(slice) :
                                  /\ slice[i][1] # NaN
                                  /\ \A j \in (i + 1)..Len(slice) : slice[j][1] = NaN
                   IN /\ Len(ret.val[1]) = 1
                      /\ Len(ret.val[2]) = 1
                      /\ partial_cmp(ret.val[1][1], slice[1]) = "Equal"
                      /\ partial_cmp(ret.val[2][1], slice[last]) = "Equal"
              ELSE /\ ret.val = << <<>>, <<>> >>
                   /\ \A i \in 1..Len(slice) : slice[i][1] = NaN

\* a slice that starts with a NaN and goes down: the minimum is the last
\* element and comes first after the sort, the maximum is in the middle
C29_Witness ==
    /\ call.op = "reduce_and_sort"
    /\ Len(input) = 3
    /\ input[1][1] = NaN
    /\ partial_cmp(input[2], input[3]) = "Greater"
    /\ ret.kind = "MinMax"
    /\ ret.val = << <<input[3]>>, <<input[2]>> >>
    /\ slice = <<input[3], input[2], input[1]>>

\* the value the operator of the call computes from the value held and rhs
Computed ==
    IF call.op = "neg" THEN f64_neg(call.x[1])
    ELSE infix(call.f, call.x[1], call.x[2])

\* C30: with checked operators, as long as no constructor and no operator
\* has panicked, the OrdVar the caller holds has a value inside the order;
\* an operator returns exactly when the value it computes is inside the
\* order, with that value in the OrdVar, and panics when it is outside.
C30_OpsKeepInside ==
    /\ (ret # Panicked /\ acc # <<>>) => acc[1].inner[1] # NaN
    /\ call.op \in {"infix", "neg", "assign"}
          => /\ ret = Panicked <=> Computed[1] = NaN
             /\ ret # Panicked => acc = <<[inner |-> Computed]>>

\* the caller holds an infinity and subtracts an infinity: the operator
\* panics
C30_Witness ==
    /\ call.op = "infix"
    /\ call.f = "sub"
    /\ call.x = <<infinity(1), infinity(1)>>
    /\ ret = Panicked

====
